---- MODULE Spec2Model ----
(***************************************************************************)
(* Model of the multifill plugin of INGInious                               *)
(* (src/plugins/ntnu_inginious_multifill/ntnu_inginious_multifill):         *)
(* the SubtaskString grammar and its seeded sampler, the ScoreString        *)
(* grammar, and MultifillProblem construction / show_input.                 *)
(*                                                                          *)
(* Python strings are sequences of one-character strings; a raised          *)
(* exception is a status other than "ok" on the value a constructor         *)
(* returns (the caller never gets the object).                              *)
(***************************************************************************)
EXTENDS Integers, Sequences, FiniteSets, TLC

\* ------------------------------------------------------------------ bounds
\* Longest subtask string drawn exhaustively over Alphabet.
MaxLen == 3
\* Longest score string drawn exhaustively over ScoreAlphabet.
MaxScoreLen == 5
\* Sampling is explored for specs whose total_bag is at most this.
MaxBag == 4
\* Sampling calls per behaviour.
MaxCalls == 3
\* Largest number of declared subtasks of a problem.
MaxSubtasks == 3
\* Largest subtask count a default score string is built from.
MaxCount == 12

\* requests made to the danger zone page
MaxRequests == 3

\* seconds the clock of the danger zone runs to
MaxTime == 2

\* get_task and create_task calls made of the task factory
MaxOps == 2

\* times a file of a task is written by its editors
MaxEdits == 1

\* the time the filesystem of the tasks runs to
MaxMtime == 2

\* ------------------------------------------------------------------- state
VARIABLES
    subs,      \* the SubtaskString objects built directly, by name
    score,     \* the ScoreString object built directly
    problem,   \* the MultifillProblem
    pc,        \* per request handler: "idle" or "sampling"
    loc,       \* per request handler: the locals of sample_subtasks
    oracle,    \* the values the generators have yielded: <<seed, hist, value>>
    log,       \* the sampling calls that returned or raised, in order
    \* the danger zone page (pages/course_admin/danger_zone.py)
    courses,   \* the course folders of the course factory, with descriptors
    database,  \* the collections submissions, user_tasks, groups, audiences
               \* and courses
    gridfs,    \* the ids of the files stored in GridFS
    session,   \* the token of the user's session and the tokens handed out
    clock,     \* datetime.now(), in seconds
    last,      \* the last request to the page and what it did
    \* the task factory (frontend/task_factory.py)
    disk,      \* per task id: task.yaml and the translation file
    cache,     \* TaskFactory._cache
    tpc,       \* per thread: where it is in get_task or create_task
    tloc,      \* per thread: the locals of the call it is in
    mtime,     \* the time the filesystem stamped on the last write
    tlog       \* the get_task and create_task calls that ended, in order

multifill == <<subs, score, problem, pc, loc, oracle, log>>

danger == <<courses, database, gridfs, session, clock, last>>

factory == <<disk, cache, tpc, tloc, mtime, tlog>>

vars == <<multifill, danger, factory>>

\* ----------------------------------------------------------------- strings
Digits == {"0", "1", "2", "3", "4", "5", "6", "7", "8", "9"}

DigitVal(c) ==
    CASE c = "0" -> 0 [] c = "1" -> 1 [] c = "2" -> 2 [] c = "3" -> 3
      [] c = "4" -> 4 [] c = "5" -> 5 [] c = "6" -> 6 [] c = "7" -> 7
      [] c = "8" -> 8 [] c = "9" -> 9

DigitChar(d) ==
    CASE d = 0 -> "0" [] d = 1 -> "1" [] d = 2 -> "2" [] d = 3 -> "3"
      [] d = 4 -> "4" [] d = 5 -> "5" [] d = 6 -> "6" [] d = 7 -> "7"
      [] d = 8 -> "8" [] d = 9 -> "9"

\* str(n) for a non-negative int (the f-string formatting of len(subtasks))
RECURSIVE IntToStr(_)
IntToStr(n) ==
    IF n < 10 THEN <<DigitChar(n)>>
    ELSE IntToStr(n \div 10) \o <<DigitChar(n % 10)>>

\* sub in s  (for a one-character sub)
Contains(s, c) == \E i \in 1..Len(s) : s[i] = c

\* s.split(sep) for a one-character separator: always at least one part
RECURSIVE SplitFrom(_, _, _)
SplitFrom(s, sep, cur) ==
    IF s = <<>> THEN <<cur>>
    ELSE IF Head(s) = sep THEN <<cur>> \o SplitFrom(Tail(s), sep, <<>>)
    ELSE SplitFrom(Tail(s), sep, Append(cur, Head(s)))

Split(s, sep) == SplitFrom(s, sep, <<>>)

\* sep.join(parts)
RECURSIVE Join(_, _)
Join(sep, parts) ==
    IF parts = <<>> THEN <<>>
    ELSE IF Len(parts) = 1 THEN Head(parts)
    ELSE Head(parts) \o <<sep>> \o Join(sep, Tail(parts))

\* s.strip(): leading and trailing whitespace removed
RECURSIVE LStrip(_)
LStrip(s) == IF s # <<>> /\ Head(s) = " " THEN LStrip(Tail(s)) ELSE s

RECURSIVE RStrip(_)
RStrip(s) ==
    IF s # <<>> /\ s[Len(s)] = " " THEN RStrip(SubSeq(s, 1, Len(s) - 1)) ELSE s

Strip(s) == RStrip(LStrip(s))

\* value of a run of digits and single underscores, most significant first
RECURSIVE DigitsValue(_, _)
DigitsValue(s, acc) ==
    IF s = <<>> THEN acc
    ELSE IF Head(s) = "_" THEN DigitsValue(Tail(s), acc)
    ELSE DigitsValue(Tail(s), 10 * acc + DigitVal(Head(s)))

\* the body int() accepts after the sign: digits, single underscores between
IsDigitRun(s) ==
    /\ s # <<>>
    /\ \A i \in 1..Len(s) : s[i] \in Digits \/ s[i] = "_"
    /\ s[1] \in Digits
    /\ s[Len(s)] \in Digits
    /\ \A i \in 1..(Len(s) - 1) : ~(s[i] = "_" /\ s[i + 1] = "_")

\* int(s): [ok |-> FALSE] stands for ValueError
ParseInt(s) ==
    LET t == Strip(s)
        signed == t # <<>> /\ Head(t) \in {"-", "+"}
        body == IF signed THEN Tail(t) ELSE t
    IN  IF IsDigitRun(body)
        THEN [ok |-> TRUE,
              val |-> IF signed /\ Head(t) = "-"
                      THEN 0 - DigitsValue(body, 0)
                      ELSE DigitsValue(body, 0)]
        ELSE [ok |-> FALSE, val |-> 0]

\* ---------------------------------------------------- SubtaskString.__init__
\* one group of the string: lines 46-56 ([ok |-> FALSE] is the ValueError
\* caught and re-raised as "illegal group")
ParseGroup(group) ==
    IF Contains(group, "/")
    THEN LET parts == Split(group, "/")
         IN  IF Len(parts) # 2
             THEN [ok |-> FALSE, pull |-> 0, bag |-> 0]
             ELSE LET p == ParseInt(parts[1])
                      b == ParseInt(parts[2])
                  IN  [ok |-> p.ok /\ b.ok, pull |-> p.val, bag |-> b.val]
    ELSE LET p == ParseInt(group)
         IN  [ok |-> p.ok, pull |-> p.val, bag |-> p.val]

\* GroupCheck without the empty-bag check of lines 65-66
GroupCheckNoEmptyBag(pull, bag) ==
    IF pull < 0 THEN "negative_pull"
    ELSE IF pull > bag THEN "pull_gt_bag"
    ELSE "ok"

\* GroupCheck without the pull > bag check of lines 67-68
GroupCheckNoPullLimit(pull, bag) ==
    IF pull < 0 THEN "negative_pull"
    ELSE IF bag < 1 THEN "empty_bag"
    ELSE "ok"

\* the checks of lines 63-68, in the order the code makes them
GroupCheck(pull, bag) ==
    IF pull < 0 THEN "negative_pull"
    ELSE IF bag < 1 THEN "empty_bag"
    ELSE IF pull > bag THEN "pull_gt_bag"
    ELSE "ok"

\* the inner loop (lines 45-68) over the groups of one loose group, then
\* line 70; self is the object under construction
RECURSIVE LooseGroupLoop(_, _, _)
LooseGroupLoop(self, gs, loose_group_result) ==
    IF gs = <<>>
    THEN [self EXCEPT !.groups = Append(@, loose_group_result)]
    ELSE LET g == ParseGroup(Head(gs))
         IN  IF ~g.ok
             THEN [self EXCEPT !.status = "illegal_group"]
             ELSE LET added == [self EXCEPT !.total_pull = @ + g.pull,
                                            !.total_bag = @ + g.bag]
                      verdict == GroupCheck(g.pull, g.bag)
                  IN  IF verdict # "ok"
                      THEN [added EXCEPT !.status = verdict]
                      ELSE LooseGroupLoop(added, Tail(gs),
                               Append(loose_group_result, <<g.pull, g.bag>>))

\* the outer loop (line 43) over the loose groups
RECURSIVE StringLoop(_, _)
StringLoop(self, lgs) ==
    IF lgs = <<>> THEN self
    ELSE LET next == LooseGroupLoop(self, Split(Head(lgs), ","), <<>>)
         IN  IF next.status # "ok" THEN next ELSE StringLoop(next, Tail(lgs))

\* SubtaskString(string)
SubtaskString(string) ==
    StringLoop([status |-> "ok", string |-> string, total_pull |-> 0,
                total_bag |-> 0, groups |-> <<>>],
               Split(string, ";"))

\* default_for_subtasks joining the groups with "," (one loose group)
SubtaskDefaultLoose(n) == SubtaskString(Join(",", [i \in 1..n |-> <<"1">>]))

\* SubtaskString.default_for_subtasks(subtasks), subtasks given by its length
SubtaskDefault(n) == SubtaskString(Join(";", [i \in 1..n |-> <<"1">>]))

\* ------------------------------------------------------ ScoreString.__init__
\* ScoreString without the expected-score range check of lines 154-155
ScoreStringNoExpected(string) ==
    LET parts == Split(string, "/")
        blank == [status |-> "ok", string |-> string,
                  minimum |-> 0, expected |-> 0, total |-> 0]
    IN  IF Len(parts) # 3 THEN [blank EXCEPT !.status = "wrong_arity"]
        ELSE LET mi == ParseInt(parts[1])
                 ex == ParseInt(parts[2])
                 to == ParseInt(parts[3])
                 obj == [blank EXCEPT !.minimum = mi.val, !.expected = ex.val,
                                      !.total = to.val]
             IN  IF ~(mi.ok /\ ex.ok /\ to.ok)
                 THEN [blank EXCEPT !.status = "illegal_score"]
                 ELSE IF obj.minimum < 0 \/ obj.minimum > obj.total
                 THEN [obj EXCEPT !.status = "minimum_out_of_range"]
                 ELSE IF obj.total < 0
                 THEN [obj EXCEPT !.status = "negative_total"]
                 ELSE obj

ScoreString(string) ==
    LET parts == Split(string, "/")
        blank == [status |-> "ok", string |-> string,
                  minimum |-> 0, expected |-> 0, total |-> 0]
    IN  IF Len(parts) # 3 THEN [blank EXCEPT !.status = "wrong_arity"]
        ELSE LET mi == ParseInt(parts[1])
                 ex == ParseInt(parts[2])
                 to == ParseInt(parts[3])
                 obj == [blank EXCEPT !.minimum = mi.val, !.expected = ex.val,
                                      !.total = to.val]
             IN  IF ~(mi.ok /\ ex.ok /\ to.ok)
                 THEN [blank EXCEPT !.status = "illegal_score"]
                 ELSE IF obj.minimum < 0 \/ obj.minimum > obj.total
                 THEN [obj EXCEPT !.status = "minimum_out_of_range"]
                 ELSE IF obj.expected < 0 \/ obj.expected > obj.total
                 THEN [obj EXCEPT !.status = "expected_out_of_range"]
                 ELSE IF obj.total < 0
                 THEN [obj EXCEPT !.status = "negative_total"]
                 ELSE obj

\* ScoreString.default_for_subtasks(subtasks), subtasks given by its length
ScoreDefault(n) ==
    ScoreString(<<"0", "/">> \o IntToStr(n) \o <<"/">> \o IntToStr(n))

\* ------------------------------------------------------- random.Random(str)
\* The generator is a deterministic function of its seed string and of the
\* requests made of it so far.  rand = [seed, hist]: hist is the sequence of
\* arguments n of the _randbelow(n) requests made.  Which value each request
\* yields is not fixed by the model: oracle records, the first time a
\* (seed, hist) is asked, the value it gave, and gives it again ever after.
\* a generator whose seeding also depends on how many calls came before
RandomByCallOrder(task_id, seed) ==
    [seed |-> task_id \o <<"#">> \o seed \o <<"#">> \o IntToStr(Len(log)),
     hist |-> <<>>]

Random(task_id, seed) == [seed |-> task_id \o <<"#">> \o seed, hist |-> <<>>]

\* list(range(a, b))
RECURSIVE Range(_, _)
Range(a, b) == IF a >= b THEN <<>> ELSE <<a>> \o Range(a + 1, b)

\* the requests of rand.sample(this_bag, bag): the whole bag is drawn
SampleRequestsWholeBag(n, k) == [i \in 1..n |-> n - i + 1]

\* the _randbelow arguments of rand.sample(population, k), len(population) = n
SampleRequests(n, k) == [i \in 1..k |-> n - i + 1]

\* rand.sample's pool algorithm: result[i] = pool[j]; pool[j] = pool[n-i-1]
RECURSIVE PoolSample(_, _)
PoolSample(pool, draws) ==
    IF draws = <<>> THEN <<>>
    ELSE LET j == Head(draws) + 1
             m == Len(pool)
         IN  <<pool[j]>> \o
             PoolSample(SubSeq([pool EXCEPT ![j] = pool[m]], 1, m - 1),
                        Tail(draws))

\* the _randbelow arguments of rand.shuffle(x): i + 1 for i = len-1 .. 1
ShuffleRequests(len) == [i \in 1..(len - 1) |-> len - i + 1]

\* rand.shuffle: for i in reversed(range(1, len(x))): swap x[i], x[j]
RECURSIVE ShuffleFrom(_, _, _)
ShuffleFrom(x, i, draws) ==
    IF i < 1 THEN x
    ELSE LET j == Head(draws)
         IN  ShuffleFrom([x EXCEPT ![i + 1] = x[j + 1], ![j + 1] = x[i + 1]],
                         i - 1, Tail(draws))

Shuffled(x, draws) == ShuffleFrom(x, Len(x) - 1, draws)

\* this_bag = list(range(bag)): the cursor is not applied
ThisBagFromZero(bag_counter, bag) == Range(0, bag)

\* a cursor shared by the handlers: it is moved on by every other call that
\* is running at the same time
ThisBagSharedCursor(bag_counter, bag) ==
    Range(bag_counter + Cardinality({h \in DOMAIN pc : pc[h] = "sampling"}) - 1,
          bag_counter + bag)

\* line 114: this_bag = list(range(bag_counter, bag_counter + bag))
ThisBag(bag_counter, bag) == Range(bag_counter, bag_counter + bag)

\* the shuffled picks put in front of the result instead of after it
PrependShuffled(result, shuffler, draws) == Shuffled(shuffler, draws) \o result

\* lines 119-120: rand.shuffle(shuffler); result.extend(shuffler)
ExtendShuffled(result, shuffler, draws) == result \o Shuffled(shuffler, draws)

\* every sequence of values the requests ns can yield: d[i] \in 0..ns[i]-1
RECURSIVE DrawSeqs(_)
DrawSeqs(ns) ==
    IF ns = <<>> THEN {<<>>}
    ELSE {<<v>> \o rest : v \in 0..(Head(ns) - 1), rest \in DrawSeqs(Tail(ns))}

\* ------------------------------------------------------------------ inputs
Alphabet == {"0", "1", "-", "/", ",", ";", "a"}

ScoreAlphabet == {"0", "1", "2", "-", "/", "a"}

\* strings with the digits 2 and 3 (bags to pull from), with blanks, signs
\* and underscores, strings longer than MaxLen, and the strings the
\* documentation names
CuratedStrings ==
    { <<"1", ";", "1", "/", "2", ",", "1">>,
      <<"1", ";", "1", "/", "3">>,
      <<"1", ";", "1", ";", "1">>,
      <<"2">>, <<"1", "/", "2">>, <<"2", "/", "2">>, <<"0", "/", "2">>,
      <<"2", "/", "1">>, <<"0", "/", "0">>, <<"a", "b", "c">>,
      <<"-", "1", "/", "2">>,
      <<"1", "/", "-", "1">>,
      <<"1", "/", "2", "/", "3">>,
      <<"+", "1">>, <<"1", "_", "0", "/", "3">>, <<"1", "_", "/", "3">>,
      <<" ">>, <<" ", " ">>, <<" ", "1">>, <<"1", " ", ",", " ", "1">>,
      <<"1", " ", "1">>, <<"-", " ", "1">> }

Strings == UNION {[1..n -> Alphabet] : n \in 0..MaxLen} \cup CuratedStrings

CuratedScores ==
    { <<"6", "/", "3", "/", "5">>, <<"1", "/", "6", "/", "5">>,
      <<"0", "/", "5", "/", "5">>, <<"0", "/", "0", "/", "-", "1">>,
      <<"-", "1", "/", "-", "1", "/", "-", "1">>,
      <<"1", "/", "2", "/", "3", "/", "4">>, <<" ", "1", "/", "2", "/", "2">>,
      <<" ">> }

ScoreStrings ==
    UNION {[1..n -> ScoreAlphabet] : n \in 0..MaxScoreLen} \cup CuratedScores

\* a key the content dictionary does not hold
Absent == <<"absent">>

\* content.get(key, "")
Get(value) == IF value = Absent THEN <<>> ELSE value

\* the score strings a problem definition is tried with
ProblemScores == { Absent, <<"1", "/", "2", "/", "2">>, <<"2", "/", "1">>, <<" ">> }

\* content["subtasks"]: absent (or no list), or a list of subtasks, each
\* with a "text" key (TRUE) or, the last one, without (FALSE)
SubtaskLists ==
    {[present |-> TRUE, texts |-> [i \in 1..n |-> TRUE]] : n \in 0..MaxSubtasks}
        \cup {[present |-> TRUE, texts |-> [i \in 1..n |-> i # n]] :
                 n \in 1..MaxSubtasks}
        \cup {[present |-> FALSE, texts |-> <<>>]}

TaskIds == { <<"p">> }

Seeds == { <<"s">>, <<"t">> }

Objs == {"a", "b"}

Handlers == {"h1", "h2"}

\* ----------------------------------------------------------- initial state
NoSub ==
    [status |-> "none", string |-> <<>>, total_pull |-> 0, total_bag |-> 0,
     groups |-> <<>>]

NoScore ==
    [status |-> "none", string |-> <<>>, minimum |-> 0, expected |-> 0,
     total |-> 0]

\* content is the definition the problem was built from (Problem.__init__
\* receives it), kept to tell which strings the definition supplied
NoContent ==
    [subtasks |-> [present |-> FALSE, texts |-> <<>>],
     subtask_string |-> Absent, score_string |-> Absent]

NoProblem ==
    [status |-> "none", problemid |-> <<>>, content |-> NoContent,
     subtasks |-> <<>>, subtask_string |-> NoSub, score_string |-> NoScore]

IdleLoc ==
    [self |-> "a", task_id |-> <<>>, seed |-> <<>>,
     rand |-> [seed |-> <<>>, hist |-> <<>>],
     result |-> <<>>, bag_counter |-> 0, shuffler |-> <<>>, lg |-> 1, g |-> 1]

\* the course folders at the start: two courses that are not archives
Courses0 ==
    {[id |-> <<"c">>,
      descriptor |-> [name |-> "c", archived |-> FALSE, archive_date |-> 0]],
     [id |-> <<"d">>,
      descriptor |-> [name |-> "d", archived |-> FALSE, archive_date |-> 0]]}

\* the collections at the start; the input or archive of a submission is the
\* id of a GridFS file, or 0 when it is not an ObjectId; the course "d" has
\* no document in the collection courses
Database0 ==
    [submissions |-> {[id |-> 1, courseid |-> <<"c">>, input |-> 1, archive |-> 2],
                      [id |-> 2, courseid |-> <<"c">>, input |-> 0, archive |-> 0],
                      [id |-> 3, courseid |-> <<"d">>, input |-> 3, archive |-> 0]},
     user_tasks |-> {[id |-> 1, courseid |-> <<"c">>],
                     [id |-> 2, courseid |-> <<"d">>]},
     groups |-> {[id |-> 1, courseid |-> <<"c">>], [id |-> 2, courseid |-> <<"d">>]},
     audiences |-> {[id |-> 1, courseid |-> <<"c">>],
                    [id |-> 2, courseid |-> <<"d">>]},
     courses |-> {[_id |-> <<"c">>, students |-> {"u", "v"}]}]

Gridfs0 == {1, 2, 3}

\* token 0 is None: the session holds no token before the page is rendered
Session0 == [token |-> 0, minted |-> 0]

NoRequest ==
    [n |-> 0, method |-> "none", url |-> <<>>, token |-> 0, courseid |-> <<>>,
     ops |-> {}, call |-> "none", raised |-> "", archive |-> <<>>,
     response |-> "none", spent |-> {}]

Tasks == {"t1", "t2"}

Threads == {"w1", "w2"}

\* a file that does not exist
NoFile == [exists |-> FALSE, version |-> 0, by |-> "none", mtime |-> 0]

\* the task folders at the start: "t1" has a task.yaml and no translation,
\* "t2" has no folder
Disk0 ==
    [t \in Tasks |->
        IF t = "t1"
        THEN [dir |-> TRUE,
              yaml |-> [exists |-> TRUE, version |-> 1, by |-> "editor",
                        mtime |-> 1],
              mo |-> NoFile]
        ELSE [dir |-> FALSE, yaml |-> NoFile, mo |-> NoFile]]

\* last_modif holds -1 for a file name that is not a key of the dict
NoModif == [yaml |-> 0 - 1, mo |-> 0 - 1]

NoTask == [yaml |-> NoFile, mo |-> NoFile]

\* a key that is not in self._cache
NoEntry == [cached |-> FALSE, task |-> NoTask, last_modif |-> NoModif]

\* the locals of a thread; began, began_mo, seen, rec and built keep, for
\* the call the thread is in, the files as they were when the call began,
\* the times _cache_update_needed read, the cache entry it compared them
\* with, and the Task the call built
IdleThread ==
    [op |-> "none", task |-> "t1", last_update |-> NoModif,
     task_content |-> NoFile, rec |-> NoEntry, began |-> NoFile,
     began_mo |-> NoFile, seen |-> NoModif, rebuilt |-> FALSE,
     built |-> NoTask]

Init ==
    /\ disk = Disk0
    /\ cache = [t \in Tasks |-> NoEntry]
    /\ tpc = [w \in Threads |-> "idle"]
    /\ tloc = [w \in Threads |-> IdleThread]
    /\ mtime = 1
    /\ tlog = <<>>
    /\ courses = Courses0
    /\ database = Database0
    /\ gridfs = Gridfs0
    /\ session = Session0
    /\ clock = 1
    /\ last = NoRequest
    /\ subs = [o \in Objs |-> NoSub]
    /\ score = NoScore
    /\ problem = NoProblem
    /\ pc = [h \in Handlers |-> "idle"]
    /\ loc = [h \in Handlers |-> IdleLoc]
    /\ oracle = {}
    /\ log = <<>>

\* ------------------------------------------------------------ construction
\* SubtaskString(string), called directly; the object "b" is a second
\* object built from the string of "a" (the same definition loaded again)
NewSubtaskString(o) ==
    /\ subs[o].status = "none"
    /\ \E string \in (IF o = "a" THEN Strings
                      ELSE IF subs["a"].status = "ok" THEN {subs["a"].string}
                      ELSE {}) :
           subs' = [subs EXCEPT ![o] = SubtaskString(string)]
    /\ UNCHANGED <<score, problem, pc, loc, oracle, log>>
    /\ UNCHANGED <<danger, factory>>

\* ScoreString(string), called directly
NewScoreString ==
    /\ score.status = "none"
    /\ \E string \in ScoreStrings : score' = ScoreString(string)
    /\ UNCHANGED <<subs, problem, pc, loc, oracle, log>>
    /\ UNCHANGED <<danger, factory>>

\* ScoreString.default_for_subtasks(subtasks), called directly
NewScoreDefault ==
    /\ score.status = "none"
    /\ \E n \in 0..MaxCount : score' = ScoreDefault(n)
    /\ UNCHANGED <<subs, problem, pc, loc, oracle, log>>
    /\ UNCHANGED <<danger, factory>>

\* MultifillProblem.__init__, lines 204-210: the score string
WithScoreString(p, sc) ==
    IF sc.status # "ok" THEN [p EXCEPT !.status = sc.status]
    ELSE [p EXCEPT !.score_string = sc, !.status = "ok"]

\* WithSubtaskString without the check of lines 199-202
WithSubtaskStringUnchecked(p, ss, content) ==
    IF ss.status # "ok" THEN [p EXCEPT !.status = ss.status]
    ELSE WithScoreString([p EXCEPT !.subtask_string = ss],
             IF Strip(Get(content.score_string)) # <<>>
             THEN ScoreString(content.score_string)
             ELSE ScoreDefault(Len(p.subtasks)))

\* MultifillProblem.__init__, lines 198-210: the bag / subtask count check
WithSubtaskString(p, ss, content) ==
    IF ss.status # "ok" THEN [p EXCEPT !.status = ss.status]
    ELSE IF Len(p.subtasks) # ss.total_bag
    THEN [p EXCEPT !.subtask_string = ss, !.status = "bag_mismatch"]
    ELSE WithScoreString([p EXCEPT !.subtask_string = ss],
             IF Strip(Get(content.score_string)) # <<>>
             THEN ScoreString(content.score_string)
             ELSE ScoreDefault(Len(p.subtasks)))

\* MultifillProblem.__init__, lines 185-196: the subtasks and their text,
\* then the subtask string or its default
WithSubtasks(p, content) ==
    IF \E i \in 1..Len(p.subtasks) : ~p.subtasks[i]
    THEN [p EXCEPT !.status = "missing_text"]
    ELSE WithSubtaskString(p,
             IF Strip(Get(content.subtask_string)) # <<>>
             THEN SubtaskString(content.subtask_string)
             ELSE SubtaskDefault(Len(p.subtasks)),
             content)

\* MultifillProblem.__init__(problemid, content, ...): lines 178-210
MultifillProblem(problemid, content) ==
    IF ~content.subtasks.present
    THEN [NoProblem EXCEPT !.problemid = problemid, !.content = content,
                           !.status = "no_subtasks"]
    ELSE WithSubtasks([NoProblem EXCEPT !.problemid = problemid,
                                        !.content = content,
                                        !.subtasks = content.subtasks.texts],
                      content)

\* the subtask strings a problem definition is tried with
ProblemStrings == Strings \cup {Absent, <<"1", ",", "2">>}

NewMultifillProblem ==
    /\ problem.status = "none"
    /\ \E subtasks \in SubtaskLists, subtask_string \in ProblemStrings,
          score_string \in ProblemScores :
           problem' = MultifillProblem(<<"p">>,
                          [subtasks |-> subtasks,
                           subtask_string |-> subtask_string,
                           score_string |-> score_string])
    /\ UNCHANGED <<subs, score, pc, loc, oracle, log>>
    /\ UNCHANGED <<danger, factory>>

\* ---------------------------------------------------------------- sampling
\* the SubtaskString a handler's sample_subtasks runs on (its self)
Obj(ref) == IF ref = "problem" THEN problem.subtask_string ELSE subs[ref]

\* calls begun and not yet logged
Running == Cardinality({h \in Handlers : pc[h] = "sampling"})

\* lines 103-106: rand = Random(f"{task_id}#{seed}"); result = [];
\* bag_counter = 0 (and line 110 for the first loose group)
Enter(h, ref, task_id, seed) ==
    /\ pc[h] = "idle"
    /\ Len(log) + Running < MaxCalls
    /\ Obj(ref).status = "ok"
    /\ Obj(ref).total_bag <= MaxBag
    /\ pc' = [pc EXCEPT ![h] = "sampling"]
    /\ loc' = [loc EXCEPT ![h] =
                  [self |-> ref, task_id |-> task_id, seed |-> seed,
                   rand |-> Random(task_id, seed),
                   result |-> <<>>, bag_counter |-> 0, shuffler |-> <<>>,
                   lg |-> 1, g |-> 1]]
    /\ UNCHANGED <<subs, score, problem, oracle, log>>
    /\ UNCHANGED <<danger, factory>>

\* sample_subtasks(task_id, seed) called on a SubtaskString built directly
SampleSubtasks(h) ==
    \E o \in Objs, task_id \in TaskIds, seed \in Seeds : Enter(h, o, task_id, seed)

\* show_input(template_helper, language, seed), lines 297-298: the call
\* self._subtask_string.sample_subtasks(self.get_id(), seed)
ShowInput(h) ==
    /\ problem.status = "ok"
    /\ \E seed \in Seeds : Enter(h, "problem", problem.problemid, seed)

\* the generator rand asked the requests ns yields the values d
Yields(rand, ns, d) ==
    \A i \in 1..Len(ns) :
        \A e \in oracle :
            (e[1] = rand.seed /\ e[2] = rand.hist \o SubSeq(ns, 1, i))
                => e[3] = d[i]

Asked(rand, ns, d) ==
    oracle \cup {<<rand.seed, rand.hist \o SubSeq(ns, 1, i), d[i]>> :
                    i \in 1..Len(ns)}

\* a call that ends: its outcome is logged and the handler is idle again
Logged(h, outcome, result) ==
    Append(log, [string |-> Obj(loc[h].self).string,
                 task_id |-> loc[h].task_id, seed |-> loc[h].seed,
                 outcome |-> outcome, result |-> result])

\* lines 113-117, one group (pull, bag) of the current loose group
SampleGroup(h) ==
    /\ pc[h] = "sampling"
    /\ loc[h].lg <= Len(Obj(loc[h].self).groups)
    /\ loc[h].g <= Len(Obj(loc[h].self).groups[loc[h].lg])
    /\ LET l == loc[h]
           pull == Obj(l.self).groups[l.lg][l.g][1]
           bag == Obj(l.self).groups[l.lg][l.g][2]
           this_bag == ThisBag(l.bag_counter, bag)
           ns == SampleRequests(Len(this_bag), pull)
       IN  IF pull < 0 \/ pull > Len(this_bag)
           THEN \* rand.sample raises ValueError
                /\ log' = Logged(h, "ValueError", <<>>)
                /\ pc' = [pc EXCEPT ![h] = "idle"]
                /\ loc' = [loc EXCEPT ![h] = IdleLoc]
                /\ UNCHANGED oracle
           ELSE \E d \in DrawSeqs(ns) :
                /\ Yields(l.rand, ns, d)
                /\ oracle' = Asked(l.rand, ns, d)
                /\ loc' = [loc EXCEPT ![h] =
                              [l EXCEPT !.bag_counter = @ + bag,
                                        !.shuffler = @ \o PoolSample(this_bag, d),
                                        !.rand.hist = @ \o ns,
                                        !.g = @ + 1]]
                /\ UNCHANGED <<pc, log>>
    /\ UNCHANGED <<subs, score, problem>>
    /\ UNCHANGED <<danger, factory>>

\* lines 119-120 (and line 110 for the next loose group)
ShuffleLooseGroup(h) ==
    /\ pc[h] = "sampling"
    /\ loc[h].lg <= Len(Obj(loc[h].self).groups)
    /\ loc[h].g > Len(Obj(loc[h].self).groups[loc[h].lg])
    /\ LET l == loc[h]
           ns == ShuffleRequests(Len(l.shuffler))
       IN  \E d \in DrawSeqs(ns) :
            /\ Yields(l.rand, ns, d)
            /\ oracle' = Asked(l.rand, ns, d)
            /\ loc' = [loc EXCEPT ![h] =
                          [l EXCEPT !.result = ExtendShuffled(@, l.shuffler, d),
                                    !.shuffler = <<>>,
                                    !.rand.hist = @ \o ns,
                                    !.lg = @ + 1,
                                    !.g = 1]]
    /\ UNCHANGED <<subs, score, problem, pc, log>>
    /\ UNCHANGED <<danger, factory>>

\* show_input lines 305-311: self._subtasks[subtask_id] for each shown id
Indexable(subtasks, ids) ==
    \A i \in 1..Len(ids) : ids[i] < Len(subtasks) /\ ids[i] >= 0 - Len(subtasks)

\* lines 122-124, and for show_input the use of the ids returned
Return(h) ==
    /\ pc[h] = "sampling"
    /\ loc[h].lg > Len(Obj(loc[h].self).groups)
    /\ LET l == loc[h]
           outcome ==
               IF l.bag_counter # Obj(l.self).total_bag THEN "AssertionError"
               ELSE IF l.self = "problem" /\ ~Indexable(problem.subtasks, l.result)
               THEN "IndexError"
               ELSE "ok"
       IN  log' = Logged(h, outcome, IF outcome = "AssertionError" THEN <<>>
                                     ELSE l.result)
    /\ pc' = [pc EXCEPT ![h] = "idle"]
    /\ loc' = [loc EXCEPT ![h] = IdleLoc]
    /\ UNCHANGED <<subs, score, problem, oracle>>
    /\ UNCHANGED <<danger, factory>>

\* ------------------------------------------------------------- danger zone
\* the course folder with the id courseid (course_factory.get_course)
CourseOf(courseid) == CHOOSE c \in courses : c.id = courseid

\* get_course_and_check_rights(courseid) returns the course
HasCourse(courseid) == \E c \in courses : c.id = courseid

\* line 57: courseid + "_archive_" + now.strftime("%Y_%m_%d_%H_%M_%S")
archive_course_id(courseid) == courseid \o <<"_archive_">> \o IntToStr(clock)

\* lines 58-65: create_course, copy_to, and the descriptor marked archived
ArchiveCreated(course, archive) ==
    courses \cup
        {[id |-> archive,
          descriptor |-> [course.descriptor EXCEPT !.archived = TRUE,
                                                   !.archive_date = clock]]}

\* update_many({"courseid": courseid}, {"$set": {"courseid": archive}})
UpdateMany(collection, courseid, archive) ==
    {IF r.courseid = courseid THEN [r EXCEPT !.courseid = archive] ELSE r :
        r \in collection}

\* lines 72-76: find_one_and_delete, then insert_one under the archive id
Rekeyed(documents, courseid, archive) ==
    {IF r._id = courseid THEN [r EXCEPT !._id = archive] ELSE r : r \in documents}

\* the updates of lines 68-76 without the one of the audiences
DumpedDatabaseNoAudiences(courseid, archive) ==
    [submissions |-> UpdateMany(database.submissions, courseid, archive),
     user_tasks |-> UpdateMany(database.user_tasks, courseid, archive),
     groups |-> UpdateMany(database.groups, courseid, archive),
     audiences |-> database.audiences,
     courses |-> Rekeyed(database.courses, courseid, archive)]

\* lines 68-76: the records of the course point to the archive course
DumpedDatabase(courseid, archive) ==
    [submissions |-> UpdateMany(database.submissions, courseid, archive),
     user_tasks |-> UpdateMany(database.user_tasks, courseid, archive),
     groups |-> UpdateMany(database.groups, courseid, archive),
     audiences |-> UpdateMany(database.audiences, courseid, archive),
     courses |-> Rekeyed(database.courses, courseid, archive)]

\* lines 28-33: the GridFS files of the submissions of the course
WipedFiles(courseid) ==
    {r.input : r \in {x \in database.submissions : x.courseid = courseid}}
        \cup {r.archive : r \in {x \in database.submissions : x.courseid = courseid}}

\* lines 35-39: the students emptied, the records of the course deleted
WipedDatabase(courseid) ==
    [submissions |-> {r \in database.submissions : r.courseid # courseid},
     user_tasks |-> {r \in database.user_tasks : r.courseid # courseid},
     groups |-> {r \in database.groups : r.courseid # courseid},
     audiences |-> {r \in database.audiences : r.courseid # courseid},
     courses |-> {IF r._id = courseid THEN [r EXCEPT !.students = {}] ELSE r :
                     r \in database.courses}]

\* the request and what it did, kept until the next request; spent keeps
\* the tokens of the POSTs that were answered with the page
Request(method, courseid, data, call, raised, archive, response) ==
    [n |-> last.n + 1, method |-> method, url |-> courseid,
     token |-> data.token, courseid |-> data.courseid, ops |-> data.ops,
     call |-> call, raised |-> raised, archive |-> archive,
     response |-> response,
     spent |-> IF method = "POST" /\ response = "page"
               THEN last.spent \cup {data.token} ELSE last.spent]

\* lines 133-140: a new token is drawn and stored in the session; the value
\* of random.getrandbits(256) is taken to differ from every earlier one
page == session' = [token |-> session.minted + 1, minted |-> session.minted + 1]

\* the token is accepted when it is any token the page ever handed out
TokenValidIfIssued(data) == data.token \in 1..session.minted

\* line 104: data.get("token", "") == self.user_manager.session_token()
TokenValid(data) == data.token = session.token

\* lines 43-79, called at line 113; a raise is caught at line 115
dump_course(courseid, data) ==
    /\ IF CourseOf(courseid).descriptor.archived
       THEN /\ last' = Request("POST", courseid, data, "dump_course",
                               "CourseNotArchivable", <<>>, "page")
            /\ UNCHANGED <<courses, database>>
       ELSE IF HasCourse(archive_course_id(courseid))
       THEN /\ last' = Request("POST", courseid, data, "dump_course",
                               "CourseAlreadyExists", <<>>, "page")
            /\ UNCHANGED <<courses, database>>
       ELSE /\ courses' = ArchiveCreated(CourseOf(courseid),
                                         archive_course_id(courseid))
            /\ database' = DumpedDatabase(courseid, archive_course_id(courseid))
            /\ last' = Request("POST", courseid, data, "dump_course", "",
                               archive_course_id(courseid), "page")
    /\ page
    /\ UNCHANGED gridfs

\* lines 81-89, called at line 124, and the redirect of line 125
delete_course(courseid, data) ==
    /\ gridfs' = gridfs \ WipedFiles(courseid)
    /\ database' = WipedDatabase(courseid)
    /\ courses' = {c \in courses : c.id # courseid}
    /\ last' = Request("POST", courseid, data, "delete_course", "", <<>>,
                       "redirect")
    /\ UNCHANGED session

\* the page rendered with no operation run (lines 105, 109, 120, 130)
Refused(method, courseid, data) ==
    /\ last' = Request(method, courseid, data, "none", "", <<>>, "page")
    /\ page
    /\ UNCHANGED <<courses, database, gridfs>>

NoForm == [token |-> 0 - 1, courseid |-> <<>>, ops |-> {}]

\* the forms a client can post: a token the page handed out or none (-1),
\* the id of a course or none, and the buttons
Forms ==
    [token : {0 - 1} \cup 1..session.minted,
     courseid : {<<>>} \cup {c.id : c \in courses},
     ops : SUBSET {"wipeall", "deleteall"}]

Urls == {c.id : c \in courses} \cup {<<"x">>}

\* a request for a course that does not exist: get_course_and_check_rights
\* raises (lines 93, 98)
NotFound ==
    /\ last.n < MaxRequests
    /\ \E method \in {"GET", "POST"}, courseid \in Urls :
        /\ ~HasCourse(courseid)
        /\ last' = Request(method, courseid, NoForm, "none", "NotFound", <<>>,
                           "error")
    /\ UNCHANGED <<courses, database, gridfs, session, clock>>
    /\ UNCHANGED <<multifill, factory>>

\* lines 91-94
GET_AUTH ==
    /\ last.n < MaxRequests
    /\ \E courseid \in Urls :
        /\ HasCourse(courseid)
        /\ Refused("GET", courseid, NoForm)
    /\ UNCHANGED clock
    /\ UNCHANGED <<multifill, factory>>

\* lines 96-130
POST_AUTH ==
    /\ last.n < MaxRequests
    /\ \E courseid \in Urls, data \in Forms :
        /\ HasCourse(courseid)
        /\ IF ~TokenValid(data) THEN Refused("POST", courseid, data)
           ELSE IF "wipeall" \in data.ops
           THEN IF data.courseid # courseid THEN Refused("POST", courseid, data)
                ELSE dump_course(courseid, data)
           ELSE IF "deleteall" \in data.ops
           THEN IF data.courseid # courseid THEN Refused("POST", courseid, data)
                ELSE delete_course(courseid, data)
           ELSE Refused("POST", courseid, data)
    /\ UNCHANGED clock
    /\ UNCHANGED <<multifill, factory>>

\* a second passes
Tick ==
    /\ clock < MaxTime
    /\ clock' = clock + 1
    /\ UNCHANGED <<courses, database, gridfs, session, last>>
    /\ UNCHANGED <<multifill, factory>>

\* ------------------------------------------------------------ task factory
\* calls begun and not yet ended
Active == Cardinality({w \in Threads : tpc[w] # "idle"})

\* a call that ends: what it raised or returned is logged, with the
\* task.yaml a create_task found at its last step, and the thread is idle
Ended(w, raised, result, before) ==
    /\ tlog' = Append(tlog,
                  [op |-> tloc[w].op, task |-> tloc[w].task, raised |-> raised,
                   began |-> tloc[w].began, result |-> result,
                   before |-> before])
    /\ tpc' = [tpc EXCEPT ![w] = "idle"]
    /\ tloc' = [tloc EXCEPT ![w] = IdleThread]

\* lines 24-33 and 118-124: get_task begins; a key that is not in the cache
\* needs the update
get_task(w, taskid) ==
    /\ tpc[w] = "idle"
    /\ Len(tlog) + Active < MaxOps
    /\ tpc' = [tpc EXCEPT ![w] = IF cache[taskid].cached THEN "check"
                                 ELSE "update"]
    /\ tloc' = [tloc EXCEPT ![w] =
                   [IdleThread EXCEPT !.op = "get_task", !.task = taskid,
                                      !.began = disk[taskid].yaml,
                                      !.began_mo = disk[taskid].mo,
                                      !.rebuilt = ~cache[taskid].cached]]
    /\ UNCHANGED <<disk, cache, mtime, tlog>>
    /\ UNCHANGED <<multifill, danger>>

\* line 139: last_update = {"task.yaml": get_last_modification_time(...)},
\* in _cache_update_needed (line 127) and in _update_cache (line 178)
ReadYamlTime(w) ==
    /\ tpc[w] \in {"check", "update"}
    /\ IF ~disk[tloc[w].task].yaml.exists
       THEN /\ Ended(w, IF tpc[w] = "check" THEN "TaskNotFoundException"
                        ELSE "NotFoundException", NoTask, NoFile)
       ELSE /\ tloc' = [tloc EXCEPT ![w].last_update =
                           [yaml |-> disk[tloc[w].task].yaml.mtime,
                            mo |-> 0 - 1]]
            /\ tpc' = [tpc EXCEPT ![w] = IF tpc[w] = "check" THEN "check_mo"
                                         ELSE "update_mo"]
            /\ UNCHANGED tlog
    /\ UNCHANGED <<disk, cache, mtime>>
    /\ UNCHANGED <<multifill, danger>>

\* lines 152-156: the time of the translation file, when there is one
WithMoTime(last_update, taskid) ==
    IF disk[taskid].mo.exists
    THEN [last_update EXCEPT !.mo = disk[taskid].mo.mtime]
    ELSE last_update

\* the test of lines 132-136 on task.yaml alone
CacheUpdateNeededYamlOnly(last_update, last_modif) ==
    last_modif.yaml = 0 - 1 \/ last_modif.yaml < last_update.yaml

\* lines 132-136: a file of last_update that last_modif does not hold, or
\* holds with an earlier time
CacheUpdateNeeded(last_update, last_modif) ==
    \E f \in {"yaml", "mo"} :
        /\ last_update[f] # 0 - 1
        /\ (last_modif[f] = 0 - 1 \/ last_modif[f] < last_update[f])

\* lines 140-156 and, in _cache_update_needed, lines 131-136
ReadMoTime(w) ==
    /\ tpc[w] \in {"check_mo", "update_mo"}
    /\ IF tpc[w] = "update_mo"
       THEN /\ tloc' = [tloc EXCEPT ![w].last_update =
                           WithMoTime(tloc[w].last_update, tloc[w].task)]
            /\ tpc' = [tpc EXCEPT ![w] = "content"]
       ELSE /\ tloc' = [tloc EXCEPT
                ![w].seen = WithMoTime(tloc[w].last_update, tloc[w].task),
                ![w].rec = cache[tloc[w].task],
                ![w].rebuilt =
                    CacheUpdateNeeded(
                        WithMoTime(tloc[w].last_update, tloc[w].task),
                        cache[tloc[w].task].last_modif)]
            /\ tpc' = [tpc EXCEPT ![w] =
                   IF CacheUpdateNeeded(
                          WithMoTime(tloc[w].last_update, tloc[w].task),
                          cache[tloc[w].task].last_modif)
                   THEN "update" ELSE "return"]
    /\ UNCHANGED <<disk, cache, mtime, tlog>>
    /\ UNCHANGED <<multifill, danger>>

\* lines 158-163: task_content = loads_json_or_yaml(task_fs.get("task.yaml"))
ReadContent(w) ==
    /\ tpc[w] = "content"
    /\ IF ~disk[tloc[w].task].yaml.exists
       THEN Ended(w, "TaskUnreadableException", NoTask, NoFile)
       ELSE /\ tloc' = [tloc EXCEPT ![w].task_content = disk[tloc[w].task].yaml]
            /\ tpc' = [tpc EXCEPT ![w] = "store"]
            /\ UNCHANGED tlog
    /\ UNCHANGED <<disk, cache, mtime>>
    /\ UNCHANGED <<multifill, danger>>

\* the entry stamped with the times the files have when it is stored
CacheEntryStampedAtStore(l) ==
    [cached |-> TRUE,
     task |-> [yaml |-> l.task_content, mo |-> disk[l.task].mo],
     last_modif |-> WithMoTime([yaml |-> disk[l.task].yaml.mtime, mo |-> 0 - 1],
                               l.task)]

\* lines 180-183: (Task(taskid, task_content, course.get_fs()), last_modif);
\* the Task loads the translation file when it is constructed
CacheEntry(l) ==
    [cached |-> TRUE,
     task |-> [yaml |-> l.task_content, mo |-> disk[l.task].mo],
     last_modif |-> l.last_update]

\* lines 180-183: the entry is put in self._cache
UpdateCache(w) ==
    /\ tpc[w] = "store"
    /\ cache' = [cache EXCEPT ![tloc[w].task] = CacheEntry(tloc[w])]
    /\ tloc' = [tloc EXCEPT ![w].built = CacheEntry(tloc[w]).task]
    /\ tpc' = [tpc EXCEPT ![w] = "return"]
    /\ UNCHANGED <<disk, mtime, tlog>>
    /\ UNCHANGED <<multifill, danger>>

\* line 36: return self._cache[(course.get_id(), taskid)][0]
ReturnTask(w) ==
    /\ tpc[w] = "return"
    /\ Ended(w, "", cache[tloc[w].task].task, NoFile)
    /\ UNCHANGED <<disk, cache, mtime>>
    /\ UNCHANGED <<multifill, danger>>

\* lines 197-208: create_task begins; task_fs.ensure_exists()
create_task(w, taskid) ==
    /\ tpc[w] = "idle"
    /\ Len(tlog) + Active < MaxOps
    /\ disk' = [disk EXCEPT ![taskid].dir = TRUE]
    /\ tpc' = [tpc EXCEPT ![w] = "exists"]
    /\ tloc' = [tloc EXCEPT ![w] =
                   [IdleThread EXCEPT !.op = "create_task", !.task = taskid,
                                      !.began = disk[taskid].yaml,
                                      !.began_mo = disk[taskid].mo]]
    /\ UNCHANGED <<cache, mtime, tlog>>
    /\ UNCHANGED <<multifill, danger>>

\* lines 210-211: if task_fs.exists("task.yaml"): raise
TaskExists(w) ==
    /\ tpc[w] = "exists"
    /\ IF disk[tloc[w].task].yaml.exists
       THEN Ended(w, "TaskAlreadyExistsException", NoTask, disk[tloc[w].task].yaml)
       ELSE /\ tpc' = [tpc EXCEPT ![w] = "put"]
            /\ UNCHANGED <<tloc, tlog>>
    /\ UNCHANGED <<disk, cache, mtime>>
    /\ UNCHANGED <<multifill, danger>>

\* the times a write can be stamped with: the time of the last write, when
\* no time has passed since, or a later one
Stamps == {m \in {mtime, mtime + 1} : m <= MaxMtime}

\* line 213: task_fs.put("task.yaml", ...); the thread's name stands for
\* its init_content
PutDescriptor(w) ==
    /\ tpc[w] = "put"
    /\ \E m \in Stamps :
        /\ disk' = [disk EXCEPT ![tloc[w].task].yaml =
                       [exists |-> TRUE, version |-> @.version + 1, by |-> w,
                        mtime |-> m]]
        /\ mtime' = m
    /\ Ended(w, "", NoTask, disk[tloc[w].task].yaml)
    /\ UNCHANGED cache
    /\ UNCHANGED <<multifill, danger>>

\* the writes made so far by the editors of the tasks
Edits ==
    Cardinality({x \in Tasks \X (1..(MaxEdits + 1)) :
                    x[2] <= disk[x[1]].mo.version})
        + Cardinality({x \in Tasks \X (2..(MaxEdits + 2)) :
                          x[2] <= disk[x[1]].yaml.version
                              /\ disk[x[1]].yaml.by = "editor"})

\* an editor of the course saves task.yaml
EditYaml(taskid) ==
    /\ disk[taskid].yaml.exists
    /\ Edits < MaxEdits
    /\ \E m \in Stamps :
        /\ disk' = [disk EXCEPT ![taskid].yaml =
                       [exists |-> TRUE, version |-> @.version + 1,
                        by |-> "editor", mtime |-> m]]
        /\ mtime' = m
    /\ UNCHANGED <<cache, tpc, tloc, tlog>>
    /\ UNCHANGED <<multifill, danger>>

\* an editor of the course saves the translation file of the task
EditMo(taskid) ==
    /\ disk[taskid].dir
    /\ Edits < MaxEdits
    /\ \E m \in Stamps :
        /\ disk' = [disk EXCEPT ![taskid].mo =
                       [exists |-> TRUE, version |-> @.version + 1,
                        by |-> "editor", mtime |-> m]]
        /\ mtime' = m
    /\ UNCHANGED <<cache, tpc, tloc, tlog>>
    /\ UNCHANGED <<multifill, danger>>

\* ------------------------------------------------------------ specifications
\* SubtaskString objects built and sampled directly
Next ==
    \/ \E o \in Objs : NewSubtaskString(o)
    \/ \E h \in Handlers :
          SampleSubtasks(h) \/ SampleGroup(h) \/ ShuffleLooseGroup(h) \/ Return(h)

Spec == Init /\ [][Next]_vars

\* a MultifillProblem built from a definition and shown to learners
NextProblem ==
    \/ NewMultifillProblem
    \/ \E h \in Handlers :
          ShowInput(h) \/ SampleGroup(h) \/ ShuffleLooseGroup(h) \/ Return(h)

SpecProblem == Init /\ [][NextProblem]_vars

\* ScoreString objects built directly
NextScore == NewScoreString \/ NewScoreDefault

SpecScore == Init /\ [][NextScore]_vars

\* requests to the danger zone page of the courses
NextDanger == NotFound \/ GET_AUTH \/ POST_AUTH \/ Tick

SpecDanger == Init /\ [][NextDanger]_vars

\* threads calling the task factory while the files of the tasks are edited
NextFactory ==
    \/ \E w \in Threads, taskid \in Tasks :
          get_task(w, taskid) \/ create_task(w, taskid)
    \/ \E w \in Threads :
          \/ ReadYamlTime(w) \/ ReadMoTime(w) \/ ReadContent(w)
          \/ UpdateCache(w) \/ ReturnTask(w)
          \/ TaskExists(w) \/ PutDescriptor(w)
    \/ EditYaml("t1") \/ EditMo("t1")

SpecFactory == Init /\ [][NextFactory]_vars

\* ------------------------------------------------------------------ claims
\* the groups of a spec, loose groups concatenated in declared order
RECURSIVE Flat(_)
Flat(groups) == IF groups = <<>> THEN <<>> ELSE Head(groups) \o Flat(Tail(groups))

\* the sum of component c (1: pull, 2: bag) of the first k groups of flat
RECURSIVE SumFirst(_, _, _)
SumFirst(flat, c, k) == IF k = 0 THEN 0 ELSE SumFirst(flat, c, k - 1) + flat[k][c]

\* the number of indices the first i loose groups own
RECURSIVE BagsThrough(_, _)
BagsThrough(groups, i) ==
    IF i = 0 THEN 0
    ELSE BagsThrough(groups, i - 1)
             + SumFirst(groups[i], 2, Len(groups[i]))

\* the loose group (segment) that owns index x
SegmentOf(groups, x) ==
    1 + Cardinality({i \in 1..Len(groups) : BagsThrough(groups, i) <= x})

NoDuplicates(r) == \A p, q \in 1..Len(r) : p # q => r[p] # r[q]

Elements(r) == {r[p] : p \in 1..Len(r)}

DocExample == <<"1", ";", "1", "/", "2", ",", "1">>

\* C1: every sample_subtasks call on a SubtaskString that was constructed
\* returns (does not raise) a sequence of length total_pull, of integers in
\* 0 .. total_bag-1, in which no index occurs twice.
C1_Cardinality ==
    \A i \in 1..Len(log) :
        /\ log[i].outcome = "ok"
        /\ Len(log[i].result) = subs["a"].total_pull
        /\ Elements(log[i].result) \subseteq 0..(subs["a"].total_bag - 1)
        /\ NoDuplicates(log[i].result)

\* C1's case: a call on "1;1/3" returned two of its four indices
C1_Witness ==
    \E i \in 1..Len(log) :
        /\ log[i].string = <<"1", ";", "1", "/", "3">>
        /\ log[i].outcome = "ok"
        /\ log[i].result = <<0, 3>>

\* C2: two calls with identical (task_id, seed, spec) return identical
\* sequences, whatever other calls, on this or another SubtaskString object,
\* came before or in between.
C2_Deterministic ==
    \A i, j \in 1..Len(log) :
        (/\ log[i].string = log[j].string
         /\ log[i].task_id = log[j].task_id
         /\ log[i].seed = log[j].seed)
            => (log[i].outcome = log[j].outcome /\ log[i].result = log[j].result)

\* C2's case: the first and third call agree in their arguments, a call with
\* another seed came in between and returned another sequence
C2_Witness ==
    /\ Len(log) = 3
    /\ subs["b"].status = "ok"
    /\ log[1].seed = log[3].seed
    /\ log[2].seed # log[1].seed
    /\ log[2].result # log[1].result
    /\ log[1].result = log[3].result

\* C3: in every returned sequence the indices of an earlier loose group come
\* before the indices of every later one; for "1;1/2,1" the first element is
\* 0 and 0 is in no other position.
C3_SegmentOrder ==
    \A i \in 1..Len(log) :
        log[i].outcome = "ok" =>
            /\ \A p, q \in 1..Len(log[i].result) :
                   p < q => SegmentOf(subs["a"].groups, log[i].result[p])
                                <= SegmentOf(subs["a"].groups, log[i].result[q])
            /\ log[i].string = DocExample =>
                   /\ log[i].result[1] = 0
                   /\ \A p \in 2..Len(log[i].result) : log[i].result[p] # 0

\* C3's case: a call on "1;1/2,1" returned 0 first and then 3 before the
\* pick from {1, 2}: the second loose group was shuffled, the first stayed
C3_Witness ==
    \E i \in 1..Len(log) :
        /\ log[i].string = DocExample
        /\ log[i].outcome = "ok"
        /\ log[i].result[1] = 0
        /\ log[i].result[2] = 3

\* the positions of r holding an index of the slice lo .. hi-1
InSlice(r, lo, hi) == {p \in 1..Len(r) : lo <= r[p] /\ r[p] < hi}

\* C4: the k-th group (pull, bag), in declared order, owns the slice that
\* starts at the sum of the bags before it and has length bag; every returned
\* sequence holds exactly pull distinct indices of that slice.
C4_GroupSlices ==
    \A i \in 1..Len(log) :
        log[i].outcome = "ok" =>
            \A k \in 1..Len(Flat(subs["a"].groups)) :
                /\ Cardinality(InSlice(log[i].result,
                       SumFirst(Flat(subs["a"].groups), 2, k - 1),
                       SumFirst(Flat(subs["a"].groups), 2, k)))
                     = Flat(subs["a"].groups)[k][1]
                /\ Cardinality(Elements(log[i].result)
                       \cap (SumFirst(Flat(subs["a"].groups), 2, k - 1)
                               .. (SumFirst(Flat(subs["a"].groups), 2, k) - 1)))
                     = Flat(subs["a"].groups)[k][1]

\* C4's case: a call on "1;1/2,1" returned 3 and, of {1, 2}, only 2
C4_Witness ==
    \E i \in 1..Len(log) :
        /\ log[i].string = DocExample
        /\ log[i].outcome = "ok"
        /\ Elements(log[i].result) = {0, 2, 3}

\* the positions at which a string is cut into groups: before its first
\* character, at every ";" and ",", and after its last
Cuts(s) == {0, Len(s) + 1} \cup {i \in 1..Len(s) : s[i] \in {";", ","}}

\* the groups of a string, as written
GroupTexts(s) ==
    {SubSeq(s, a + 1, b - 1) :
        <<a, b>> \in {c \in Cuts(s) \X Cuts(s) :
                         c[1] < c[2] /\ ~\E x \in Cuts(s) : c[1] < x /\ x < c[2]}}

Slashes(t) == {i \in 1..Len(t) : t[i] = "/"}

\* the text of the pull (c = 1) and of the bag (c = 2) of a group p/b
Side(t, c) ==
    IF c = 1 THEN SubSeq(t, 1, (CHOOSE i \in Slashes(t) : TRUE) - 1)
    ELSE SubSeq(t, (CHOOSE i \in Slashes(t) : TRUE) + 1, Len(t))

\* a bare integer n, or p/b with integer p and b
WellFormed(t) ==
    \/ Slashes(t) = {} /\ ParseInt(t).ok
    \/ Cardinality(Slashes(t)) = 1 /\ ParseInt(Side(t, 1)).ok
                                   /\ ParseInt(Side(t, 2)).ok

PullOf(t) == IF Slashes(t) = {} THEN ParseInt(t).val ELSE ParseInt(Side(t, 1)).val

BagOf(t) == IF Slashes(t) = {} THEN ParseInt(t).val ELSE ParseInt(Side(t, 2)).val

ErrorKinds == {"illegal_group", "negative_pull", "empty_bag", "pull_gt_bag"}

\* C5: SubtaskString(string) succeeds exactly when every group is a bare
\* integer or p/b and has 0 <= pull <= bag and bag >= 1; otherwise it raises
\* an error whose kind matches a group of the string ("abc": illegal group,
\* "-1/2": negative pull, "0/0": empty bag, "2/1": pull > bag), and no
\* handler ever samples an object whose construction raised.  The outcome
\* of the constructor is looked at when it has returned and no call of
\* sample_subtasks has begun.
C5_Construction ==
    /\ (subs["a"].status # "none" /\ log = <<>> /\ Running = 0) =>
        /\ subs["a"].status \in {"ok"} \cup ErrorKinds
        /\ subs["a"].status = "ok" <=>
               \A t \in GroupTexts(subs["a"].string) :
                   /\ WellFormed(t)
                   /\ 0 <= PullOf(t) /\ PullOf(t) <= BagOf(t) /\ BagOf(t) >= 1
        /\ subs["a"].status = "illegal_group" =>
               \E t \in GroupTexts(subs["a"].string) : ~WellFormed(t)
        /\ subs["a"].status = "negative_pull" =>
               \E t \in GroupTexts(subs["a"].string) :
                   WellFormed(t) /\ PullOf(t) < 0
        /\ subs["a"].status = "empty_bag" =>
               \E t \in GroupTexts(subs["a"].string) :
                   WellFormed(t) /\ BagOf(t) < 1
        /\ subs["a"].status = "pull_gt_bag" =>
               \E t \in GroupTexts(subs["a"].string) :
                   WellFormed(t) /\ PullOf(t) > BagOf(t)
        /\ subs["a"].string = <<"a", "b", "c">> => subs["a"].status = "illegal_group"
        /\ subs["a"].string = <<"-", "1", "/", "2">> => subs["a"].status = "negative_pull"
        /\ subs["a"].string = <<"0", "/", "0">> => subs["a"].status = "empty_bag"
        /\ subs["a"].string = <<"2", "/", "1">> => subs["a"].status = "pull_gt_bag"
    /\ \A h \in Handlers : pc[h] = "sampling" => subs[loc[h].self].status = "ok"
    /\ \A i \in 1..Len(log) : subs["a"].status = "ok" /\ log[i].string = subs["a"].string

\* C5's case: "2/1" was given and the constructor raised pull > bag
C5_Witness ==
    subs["a"].string = <<"2", "/", "1">> /\ subs["a"].status = "pull_gt_bag"

\* C6: total_bag is the sum of the bags and total_pull the sum of the pulls
\* of the groups; MultifillProblem(...) raises the mismatch error whenever
\* total_bag differs from the number of subtasks, so a constructed problem
\* has total_bag = len(subtasks).
C6_BagTotal ==
    /\ problem.subtask_string.status = "ok" =>
        /\ problem.subtask_string.total_bag
             = SumFirst(Flat(problem.subtask_string.groups), 2,
                        Len(Flat(problem.subtask_string.groups)))
        /\ problem.subtask_string.total_pull
             = SumFirst(Flat(problem.subtask_string.groups), 1,
                        Len(Flat(problem.subtask_string.groups)))
        /\ problem.subtask_string.total_bag # Len(problem.subtasks)
               => problem.status = "bag_mismatch"
    /\ problem.status = "ok" =>
        /\ problem.subtask_string.status = "ok"
        /\ problem.subtask_string.total_bag = Len(problem.subtasks)

\* C6's case: "1,1" (two groups, bags 1 + 1) against three subtasks
C6_Witness ==
    /\ problem.status = "bag_mismatch"
    /\ problem.content.subtask_string = <<"1", ",", "1">>
    /\ Len(problem.subtasks) = 3
    /\ problem.subtask_string.total_bag = 2

\* the definition supplies no subtask string: absent, empty or blanks only
NoSubtaskString(content) ==
    \/ content.subtask_string = Absent
    \/ \A i \in 1..Len(content.subtask_string) : content.subtask_string[i] = " "

\* C7: a problem with n >= 1 subtasks and no subtask string gets the spec of
\* n groups "1" separated by ";": n loose groups (1, 1), total_bag =
\* total_pull = n, and every sampling call returns [0, 1, ..., n-1].
C7_Default ==
    (/\ problem.status \notin {"none", "no_subtasks", "missing_text"}
     /\ Len(problem.subtasks) >= 1
     /\ NoSubtaskString(problem.content)) =>
        /\ problem.subtask_string.status = "ok"
        /\ problem.status # "bag_mismatch"
        /\ problem.subtask_string.groups
             = [i \in 1..Len(problem.subtasks) |-> << <<1, 1>> >>]
        /\ problem.subtask_string.total_bag = Len(problem.subtasks)
        /\ problem.subtask_string.total_pull = Len(problem.subtasks)
        /\ \A i \in 1..Len(log) :
               /\ log[i].outcome = "ok"
               /\ log[i].result = [p \in 1..Len(problem.subtasks) |-> p - 1]

\* C7's case: three subtasks, a blank subtask string, a call returned
C7_Witness ==
    /\ problem.content.subtask_string = <<" ">>
    /\ Len(problem.subtasks) = 3
    /\ Len(log) >= 1
    /\ log[1].result = <<0, 1, 2>>

\* the "/"-separated fields of a score string all hold integers
IntegerFields(string) ==
    \A i \in 1..Len(Split(string, "/")) : ParseInt(Split(string, "/")[i]).ok

\* the string 0/n/n
DefaultScoreText(n) == <<"0", "/">> \o IntToStr(n) \o <<"/">> \o IntToStr(n)

\* C8: a constructed ScoreString holds three integers with
\* 0 <= minimum <= total and 0 <= expected <= total; "6/3/5", "1/6/5", a
\* string that has not three fields and a string with a non-integer field
\* are rejected; "0/5/5" is accepted; the default for n subtasks is accepted
\* and is 0/n/n.
C8_ScoreRange ==
    score.status # "none" =>
        /\ score.status = "ok" =>
            /\ Len(Split(score.string, "/")) = 3
            /\ IntegerFields(score.string)
            /\ score.minimum = ParseInt(Split(score.string, "/")[1]).val
            /\ score.expected = ParseInt(Split(score.string, "/")[2]).val
            /\ score.total = ParseInt(Split(score.string, "/")[3]).val
            /\ 0 <= score.minimum /\ score.minimum <= score.total
            /\ 0 <= score.expected /\ score.expected <= score.total
            /\ score.total >= 0
        /\ Len(Split(score.string, "/")) # 3 => score.status = "wrong_arity"
        /\ (Len(Split(score.string, "/")) = 3 /\ ~IntegerFields(score.string))
               => score.status = "illegal_score"
        /\ score.string = <<"6", "/", "3", "/", "5">>
               => score.status = "minimum_out_of_range"
        /\ score.string = <<"1", "/", "6", "/", "5">>
               => score.status = "expected_out_of_range"
        /\ score.string = <<"0", "/", "5", "/", "5">> => score.status = "ok"
        /\ \A n \in 0..(MaxCount + 1) :
               score.string = DefaultScoreText(n) =>
                   /\ score.status = "ok"
                   /\ score.minimum = 0 /\ score.expected = n /\ score.total = n

\* C8's case: the default for twelve subtasks was built and is 0/12/12
C8_Witness ==
    /\ score.status = "ok"
    /\ score.string = <<"0", "/", "1", "2", "/", "1", "2">>
    /\ score.expected = 12

\* C9: a score string of three integer fields whose total is negative is
\* rejected with the negative-total error kind.
C9_NegativeTotal ==
    (/\ score.status # "none"
     /\ Len(Split(score.string, "/")) = 3
     /\ IntegerFields(score.string)
     /\ ParseInt(Split(score.string, "/")[3]).val < 0)
        => score.status = "negative_total"

\* C10: once a MultifillProblem is constructed, no sampling call of
\* show_input raises: every group met has 0 <= pull <= bag, the cursor
\* equals total_bag when the loop over the loose groups ends, and every
\* returned index is a position of the subtasks list.
C10_NoDeferredFailure ==
    /\ \A i \in 1..Len(log) :
        /\ log[i].outcome = "ok"
        /\ \A p \in 1..Len(log[i].result) :
               0 <= log[i].result[p] /\ log[i].result[p] < Len(problem.subtasks)
    /\ \A h \in Handlers :
        pc[h] = "sampling" =>
            /\ problem.status = "ok"
            /\ loc[h].lg > Len(Obj(loc[h].self).groups)
                   => loc[h].bag_counter = Obj(loc[h].self).total_bag
            /\ (/\ loc[h].lg <= Len(Obj(loc[h].self).groups)
                /\ loc[h].g <= Len(Obj(loc[h].self).groups[loc[h].lg]))
                   => /\ 0 <= Obj(loc[h].self).groups[loc[h].lg][loc[h].g][1]
                      /\ Obj(loc[h].self).groups[loc[h].lg][loc[h].g][1]
                           <= Obj(loc[h].self).groups[loc[h].lg][loc[h].g][2]

\* C10's case: show_input on a problem with the string "1,2" and three
\* subtasks returned with the pick of the second group first
C10_Witness ==
    /\ problem.status = "ok"
    /\ problem.content.subtask_string = <<"1", ",", "2">>
    /\ Len(log) >= 1
    /\ log[1].outcome = "ok"
    /\ log[1].result[1] = 2

\* the value the generator seeded with s yielded after the requests hist
Yielded(s, hist) == (CHOOSE e \in oracle : e[1] = s /\ e[2] = hist)[3]

\* the values it yielded for the requests ns made after the requests hist
YieldedFor(s, hist, ns) ==
    [i \in 1..Len(ns) |-> Yielded(s, hist \o SubSeq(ns, 1, i))]

\* the list one call returns when it runs from start to end with no other
\* call in between, its generator seeded with s
RECURSIVE Alone(_, _, _, _, _)
Alone(groups, s, lg, g, st) ==
    IF lg > Len(groups) THEN st.result
    ELSE IF g > Len(groups[lg])
    THEN Alone(groups, s, lg + 1, 1,
             [result |-> st.result \o
                  Shuffled(st.shuffler,
                      YieldedFor(s, st.hist, ShuffleRequests(Len(st.shuffler)))),
              shuffler |-> <<>>,
              bag_counter |-> st.bag_counter,
              hist |-> st.hist \o ShuffleRequests(Len(st.shuffler))])
    ELSE Alone(groups, s, lg, g + 1,
             [result |-> st.result,
              shuffler |-> st.shuffler \o
                  PoolSample(Range(st.bag_counter,
                                   st.bag_counter + groups[lg][g][2]),
                      YieldedFor(s, st.hist,
                          SampleRequests(groups[lg][g][2], groups[lg][g][1]))),
              bag_counter |-> st.bag_counter + groups[lg][g][2],
              hist |-> st.hist \o
                  SampleRequests(groups[lg][g][2], groups[lg][g][1])])

AloneStart == [result |-> <<>>, shuffler |-> <<>>, bag_counter |-> 0, hist |-> <<>>]

\* C11: sample_subtasks leaves the SubtaskString as its constructor made it
\* (string, groups, total_pull, total_bag), and every call that returned,
\* however its steps were interleaved with those of the other handler,
\* returned the list the same call returns when it runs alone (stated of
\* the call that returned last: every call is the last one when it returns,
\* and the generator never yields another value for a request it has met).
C11_NoSharedState ==
    /\ \A o \in Objs :
        subs[o].status = "ok" => subs[o] = SubtaskString(subs[o].string)
    /\ \A i \in {Len(log)} \ {0} :
        /\ log[i].outcome = "ok"
        /\ log[i].string = subs["a"].string
        /\ log[i].result =
              Alone(subs["a"].groups,
                    log[i].task_id \o <<"#">> \o log[i].seed, 1, 1, AloneStart)

\* C11's case: both handlers are inside sample_subtasks on "1;1/2,1" at the
\* same time with different seeds; one has finished its loops and the
\* other, in its second loose group, has drawn another index
C11_Witness ==
    \E h, k \in Handlers :
        /\ pc[h] = "sampling" /\ pc[k] = "sampling"
        /\ subs[loc[h].self].string = DocExample
        /\ loc[h].seed # loc[k].seed
        /\ loc[h].lg = 3
        /\ loc[k].lg = 2 /\ loc[k].g = 3
        /\ Elements(loc[k].shuffler) # Elements(SubSeq(loc[h].result, 2, 3))

\* C13: a problem whose subtasks list is empty and that supplies no subtask
\* string is constructed with the default spec, total_bag = total_pull = 0,
\* and every sampling call on it returns the empty list.
C13_EmptyDefault ==
    (/\ problem.status # "none"
     /\ problem.content.subtasks.present
     /\ Len(problem.content.subtasks.texts) = 0
     /\ NoSubtaskString(problem.content)) =>
        /\ problem.subtask_string.status = "ok"
        /\ problem.status \notin ErrorKinds \cup {"bag_mismatch"}
        /\ problem.subtask_string.total_bag = 0
        /\ problem.subtask_string.total_pull = 0
        /\ \A i \in 1..Len(log) :
               log[i].outcome = "ok" /\ log[i].result = <<>>

\* the collections whose records carry a courseid
CourseRecords == {"submissions", "user_tasks", "groups", "audiences"}

\* C12: when dump_course returns for a course that is not an archive, every
\* record of submissions, user_tasks, groups and audiences that carried the
\* id of the course carries the id of the archive course and none carries
\* the original id, the document of the course in the collection courses is
\* re-keyed to the archive id, and the descriptor of the archive course is
\* marked archived with an archive date; on an archive course dump_course
\* raises CourseNotArchivable and no course and no record is changed.
C12_DumpCourse ==
    [][(last'.n # last.n /\ last'.call = "dump_course") =>
        /\ CourseOf(last'.url).descriptor.archived
               <=> last'.raised = "CourseNotArchivable"
        /\ last'.raised = "CourseNotArchivable" =>
               (courses' = courses /\ database' = database /\ gridfs' = gridfs)
        /\ last'.raised = "" =>
            /\ last'.archive # last'.url
            /\ \A k \in CourseRecords :
                /\ \A r \in database[k] :
                       r.courseid = last'.url =>
                           [r EXCEPT !.courseid = last'.archive] \in database'[k]
                /\ \A r \in database'[k] : r.courseid # last'.url
                /\ Cardinality(database'[k]) = Cardinality(database[k])
            /\ \A d \in database.courses :
                   d._id = last'.url =>
                       [d EXCEPT !._id = last'.archive] \in database'.courses
            /\ \A d \in database'.courses : d._id # last'.url
            /\ \E c \in courses' :
                /\ c.id = last'.archive
                /\ c.descriptor.archived
                /\ c.descriptor.archive_date # 0
                /\ c \notin courses]_vars

\* C12's case: the course "c" was archived, its audience points to the
\* archive course, and dump_course on that archive course has just raised
C12_Witness ==
    /\ last.call = "dump_course"
    /\ last.raised = "CourseNotArchivable"
    /\ last.url # <<"c">>
    /\ [id |-> 1, courseid |-> last.url] \in database.audiences
    /\ [_id |-> last.url, students |-> {"u", "v"}] \in database.courses

\* C14: a request runs dump_course or delete_course, or changes a course, a
\* record or a file, only if it is a POST whose token is the token the most
\* recent rendering of the page put in the session and whose courseid is the
\* course id of the URL; every response that renders the page puts a token
\* in the session that was never there before, and no operation runs on a
\* token that an earlier POST answered with the page had posted.
C14_TokenGuard ==
    [][/\ (\/ courses' # courses \/ database' # database \/ gridfs' # gridfs
           \/ (last'.n # last.n /\ last'.call # "none")) =>
            /\ last'.n # last.n
            /\ last'.method = "POST"
            /\ session.minted > 0
            /\ last'.token = session.minted
            /\ last'.token = session.token
            /\ last'.courseid = last'.url
            /\ last'.token \notin last.spent
       /\ (last'.n # last.n /\ last'.response = "page") =>
            /\ session'.token \notin 0..session.minted
            /\ session'.token # last'.token
       /\ (last'.n # last.n /\ last'.response # "page") => session' = session
      ]_vars

\* C14's case: the token of the first page was posted twice with the right
\* course id; the first POST archived the course, the second was refused
C14_Witness ==
    /\ last.n = 3
    /\ last.method = "POST"
    /\ last.token = 1
    /\ last.token \in last.spent
    /\ last.courseid = last.url
    /\ last.ops = {"wipeall"}
    /\ last.call = "none"
    /\ \E c \in courses : c.descriptor.archived

\* the threads whose get_task has decided whether the cache needs an update
Decided ==
    {w \in Threads : tloc[w].op = "get_task"
                         /\ tpc[w] \notin {"idle", "check", "check_mo"}}

C16_NoOverwrite ==
    /\ \A i \in 1..Len(tlog) :
        tlog[i].op = "create_task" =>
            /\ tlog[i].began.exists =>
                   tlog[i].raised = "TaskAlreadyExistsException"
            /\ tlog[i].raised = "" => ~tlog[i].before.exists
    /\ \A i, j \in 1..Len(tlog) :
        (/\ i # j
         /\ tlog[i].op = "create_task" /\ tlog[j].op = "create_task"
         /\ tlog[i].task = tlog[j].task)
            => (tlog[i].raised # "" \/ tlog[j].raised # "")

====
